---- MODULE Spec2Model ----
(***************************************************************************)
(* Model of the g-news-scraper service: the scheduled scrape task          *)
(* (app/main.py handle_scrape_task), the page fetch and article extraction *)
(* (app/services/scraper.py) and the de-duplicating persistence helpers    *)
(* check_article_exists / save_new_article over a Firestore collection.    *)
(*                                                                         *)
(* The retrieval endpoint GET /news/google (app/main.py get_google_news)   *)
(* reads the same collection.                                              *)
(*                                                                         *)
(* The specifications share the variables:                                 *)
(*   Spec          - concurrent scrape-task requests against one store;    *)
(*   SpecPersister - direct calls of the two persistence helpers;          *)
(*   SpecExtract   - calls of extract_articles_from_soup on given pages;   *)
(*   SpecNews      - one GET /news/google request on a given collection;   *)
(*   SpecPaging    - a client fetching the collection page by page.        *)
(*   SpecLoop      - the scrape task over a scraper double whose helpers   *)
(*                   can raise and whose records can lack a link.          *)
(***************************************************************************)
EXTENDS Integers, Sequences, FiniteSets, TLC

VARIABLES
    db,      \* main.py:20-29  module-level Firestore client: TRUE = initialised, FALSE = None
    store,   \* the Firestore collection NEWS_COLLECTION: document id -> document
    now,     \* the store's server clock (source of SERVER_TIMESTAMP values)
    req,     \* per request worker: position in handle_scrape_task and its locals
    call     \* the last direct call of a function or endpoint, with its inputs and result

vars == <<db, store, now, req, call>>

(***************************************************************************)
(* Bounds                                                                  *)
(***************************************************************************)
\* Number of successful writes the store clock can stamp.
MaxClock == 2

\* Number of container blocks of a page handed to the extractor.
MaxBlocks == 3

(***************************************************************************)
(* Values                                                                  *)
(***************************************************************************)
\* Python None, for values that are strings otherwise.
None == "None"

\* config.py:18
GOOGLE_NEWS_URL == "https://news.google.com/"

\* Concurrent workers serving POST /tasks/scrape/google-news.
Requests == {"r1", "r2"}

\* Values of the X-CloudScheduler request header (None: header absent).
Headers == {None, "true", "false", "TRUE"}

\* A test for None only, which lets the empty string through.
TruthyNotNone(s) == s # None

\* Python truthiness of an optional string.
Truthy(s) == s \notin {None, ""}

\* The sequences over S of length at most n.
SeqsUpTo(S, n) == UNION {[1..k -> S] : k \in 0..n}

(***************************************************************************)
(* Pure helpers                                                            *)
(***************************************************************************)
\* main.py:37-46. SHA-256 hex digest of the URL: a function of the URL only,
\* collision-free on the URLs of the model, and never the URL itself.
create_article_doc_id(article_url) == "sha256:" \o article_url

\* A header comparison that ignores case.
verify_scheduler_request_nocase(header) ==
    (IF header = None THEN "false" ELSE header) \in {"true", "TRUE"}

\* main.py:49-66
verify_scheduler_request(header) ==
    (IF header = None THEN "false" ELSE header) = "true"

\* scraper.py:38-49. urljoin on the hrefs of the model: a relative href is
\* resolved against the base, an absolute one is returned unchanged.
_resolve_url(base_url, link) ==
    CASE link = "./a" -> base_url \o "a"
      [] link = "./b" -> base_url \o "b"
      [] OTHER -> link

(***************************************************************************)
(* Pages                                                                   *)
(***************************************************************************)
\* A container block of the page: the text of its title element, the href
\* of its link element, the text of its source element, the text of its
\* snippet element (None: the element is missing).
Block(t, h, s, n) == [title |-> t, href |-> h, source |-> s, snippet |-> n]

BlockA1 == Block("t1", "./a", "src", None)
BlockA2 == Block("t2", "https://news.google.com/a", "src", "sn")
BlockB1 == Block("t1", "./b", "src", None)
BlockNoTitle == Block(None, "./b", "src", None)

\* The pages a scrape-task request may be served.
TaskPages ==
    { <<>>, <<BlockNoTitle>>, <<BlockA1>>, <<BlockA2>>,
      <<BlockA1, BlockA2>>, <<BlockB1, BlockNoTitle, BlockA1>> }

\* scraper.py:10-36: what requests.get + raise_for_status + BeautifulSoup yield.
HttpResults ==
    [kind : {"ok"}, page : TaskPages]
        \cup [kind : {"RequestException", "Exception"}, page : {<<>>}]

SoupNone == [is_none |-> TRUE, blocks |-> <<>>]

\* A fetch that yields an empty document when the request fails.
scrape_google_news_page_empty(http) ==
    [is_none |-> FALSE, blocks |-> http.page]

\* scraper.py:10-36
scrape_google_news_page(http) ==
    IF http.kind = "ok"
    THEN [is_none |-> FALSE, blocks |-> http.page]
    ELSE SoupNone

\* hrefs on which urljoin raises ValueError (an unclosed '[' in the host).
UnresolvableHrefs == {"http://["}

\* scraper.py:117 and scraper.py:135-138: _resolve_url raises for the href.
ResolveRaises(link) == link \in UnresolvableHrefs

\* scraper.py:97-138: the record extracted from one block, <<>> if the
\* block is skipped (data missing) or its processing raised.
ExtractBlock(element, base_url) ==
    IF ~(Truthy(element.title) /\ Truthy(element.href) /\ Truthy(element.source))
    THEN <<>>
    ELSE IF ResolveRaises(element.href)
    THEN <<>>
    ELSE << [ title |-> element.title,
              article_url |-> _resolve_url(base_url, element.href),
              source_name |-> element.source,
              snippet |-> element.snippet,
              google_news_url |-> _resolve_url(base_url, element.href) ] >>

RECURSIVE ExtractAllReversed(_, _)
\* The loop collecting the records in reverse document order.
ExtractAllReversed(elements, base_url) ==
    IF elements = <<>>
    THEN <<>>
    ELSE ExtractAllReversed(Tail(elements), base_url)
            \o ExtractBlock(Head(elements), base_url)

RECURSIVE ExtractAll(_, _)
\* scraper.py:97-141: the loop over the container blocks, in document order.
ExtractAll(elements, base_url) ==
    IF elements = <<>>
    THEN <<>>
    ELSE ExtractBlock(Head(elements), base_url) \o ExtractAll(Tail(elements), base_url)

\* Result of a Python call: a returned value or an escaped exception.
Return(v) == [raised |-> FALSE, value |-> v]
Raised == [raised |-> TRUE, value |-> FALSE]

\* config.py:24-32
AppSelectors ==
    [ container |-> "article.MQsxIb", title |-> "a.DY5qte", link |-> "a.DY5qte",
      source |-> "div.wEwyrc", snippet |-> "span.xBbh9" ]

\* The check of the essential selectors left out.
EssentialSelectorsUnchecked(cfg) == TRUE

\* scraper.py:76-83: all([container, title, link, source])
EssentialSelectorsSet(cfg) ==
    /\ Truthy(cfg.container)
    /\ Truthy(cfg.title)
    /\ Truthy(cfg.link)
    /\ Truthy(cfg.source)

\* scraper.py:103 and scraper.py:109: without a snippet selector no snippet
\* element is looked up.
SelectSnippets(elements, cfg) ==
    [n \in DOMAIN elements |->
        IF Truthy(cfg.snippet) THEN elements[n]
        ELSE [elements[n] EXCEPT !.snippet = None]]

\* scraper.py:51-141 under the selectors cfg of app.config. soup.select and
\* select_one raise on an empty selector: the first outside the try of the
\* loop, the second inside it (every block is then skipped).
extract_with_selectors(soup, base_url, cfg) ==
    IF soup.is_none THEN Return(<<>>)
    ELSE IF ~EssentialSelectorsSet(cfg) THEN Return(<<>>)
    ELSE IF ~Truthy(cfg.container) THEN Raised
    ELSE IF soup.blocks = <<>> THEN Return(<<>>)
    ELSE IF ~(Truthy(cfg.title) /\ Truthy(cfg.link) /\ Truthy(cfg.source))
    THEN Return(<<>>)
    ELSE Return(ExtractAll(SelectSnippets(soup.blocks, cfg), base_url))

\* scraper.py:51-141 under the selectors of config.py:24-32
extract_articles_from_soup(soup, base_url) ==
    extract_with_selectors(soup, base_url, AppSelectors).value

(***************************************************************************)
(* The document store                                                      *)
(***************************************************************************)
\* Document ids for which db.collection(..).document(id) raises ValueError
\* (a '/' in the id makes the document path odd-length).
InvalidDocIds == {"a/b"}

\* scraper.py:159 and scraper.py:184: db.collection(name).document(doc_id)
DocumentRefOk(doc_id) == doc_id \notin InvalidDocIds

\* A write that creates the document but never replaces a stored one.
SetDocumentIfAbsent(st, doc_id, data, ts) ==
    [k \in (DOMAIN st) \cup {doc_id} |->
        IF k \in DOMAIN st THEN st[k] ELSE [data EXCEPT !.scraped_at = ts]]

\* A write that, over a stored document, replaces the timestamp only.
SetDocumentTimestampOnly(st, doc_id, data, ts) ==
    [k \in (DOMAIN st) \cup {doc_id} |->
        IF k # doc_id THEN st[k]
        ELSE IF k \in DOMAIN st THEN [st[k] EXCEPT !.scraped_at = ts]
        ELSE [data EXCEPT !.scraped_at = ts]]

\* doc_ref.set(data): create or overwrite the document, stamping
\* SERVER_TIMESTAMP fields with the commit time.
SetDocument(st, doc_id, data, ts) ==
    [k \in (DOMAIN st) \cup {doc_id} |->
        IF k = doc_id THEN [data EXCEPT !.scraped_at = ts] ELSE st[k]]

\* An existence check that reports "absent" when the lookup fails.
check_article_exists_failopen(dbc, st, doc_id, io) ==
    IF ~dbc THEN Return(TRUE)
    ELSE IF ~DocumentRefOk(doc_id) THEN Raised
    ELSE IF io = "error" THEN Return(FALSE)
    ELSE Return(doc_id \in DOMAIN st)

\* scraper.py:143-166. io: the outcome of doc_ref.get() ("ok" or "error").
check_article_exists(dbc, st, doc_id, io) ==
    IF ~dbc THEN Return(TRUE)
    ELSE IF ~DocumentRefOk(doc_id) THEN Raised
    ELSE IF io = "error" THEN Return(TRUE)
    ELSE Return(doc_id \in DOMAIN st)

\* scraper.py:187-188: the copy of the record that is written.
ArticleDataToSave(article_data) ==
    [k \in (DOMAIN article_data) \cup {"scraped_at"} |->
        IF k = "scraped_at" THEN 0 ELSE article_data[k]]

\* The timestamp set on the caller's own record (no copy taken).
CallerRecordAliased(article_data) == ArticleDataToSave(article_data)

\* scraper.py:187-188: the caller's record once the timestamp has been set
\* on the copy.
CallerRecordAfterCopy(article_data) == article_data

\* scraper.py:168-195. io: the outcome of doc_ref.set() ("ok" or "error").
\* Yields the result, the store after the call and the caller's record
\* after the call (the timestamp goes into a copy, scraper.py:187).
save_new_article(dbc, st, ts, doc_id, article_data, io) ==
    IF ~dbc
    THEN [result |-> Return(FALSE), store |-> st, article_data |-> article_data]
    ELSE IF ~DocumentRefOk(doc_id)
    THEN [result |-> Raised, store |-> st, article_data |-> article_data]
    ELSE IF io = "error"
    THEN [result |-> Return(FALSE), store |-> st,
          article_data |-> CallerRecordAfterCopy(article_data)]
    ELSE [result |-> Return(TRUE),
          store |-> SetDocument(st, doc_id, ArticleDataToSave(article_data), ts),
          article_data |-> CallerRecordAfterCopy(article_data)]

IoOutcomes == {"ok", "error"}

(***************************************************************************)
(* handle_scrape_task                                                      *)
(***************************************************************************)
NoResp == [code |-> 0]

IdleReq ==
    [ pc |-> "idle", header |-> None, soup |-> SoupNone, articles |-> <<>>,
      i |-> 0, added |-> 0, failed |-> 0, existing |-> 0,
      log |-> <<>>, resp |-> NoResp ]

ErrorResp(code) == [code |-> code, status |-> "error"]

\* main.py:122 and main.py:167-173
SuccessResp(processed, added, failed) ==
    [ code |-> 200, status |-> "success", articles_processed |-> processed,
      articles_added |-> added, articles_failed_or_skipped |-> failed ]

\* A document id derived from the title instead of the link.
ArticleDocIdByTitle(article) == create_article_doc_id(article.title)

\* main.py:131-139: the document id of an extracted article.
ArticleDocId(article) == create_article_doc_id(article.article_url)

\* A log entry: one call made by the request (k: the article's position,
\* ts: the commit time of a successful write).
Ev(op, k, result, ts) == [op |-> op, k |-> k, result |-> result, ts |-> ts]

\* main.py:89-94. A request arrives (on an idle worker, or after the
\* previous response was returned) and its origin is verified.
Verify(r) ==
    /\ req[r].pc \in {"idle", "done"}
    /\ \E h \in Headers :
         req' = [req EXCEPT ![r] =
                   IF verify_scheduler_request(h)
                   THEN [IdleReq EXCEPT !.pc = "dbcheck", !.header = h]
                   ELSE [IdleReq EXCEPT !.pc = "done", !.header = h,
                                        !.resp = ErrorResp(403)]]
    /\ UNCHANGED <<db, store, now, call>>

\* The client check left out.
DbCheckSkipped(r) ==
    /\ req[r].pc = "dbcheck"
    /\ req' = [req EXCEPT ![r].pc = "fetch"]
    /\ UNCHANGED <<db, store, now, call>>

\* main.py:96-108
DbCheck(r) ==
    /\ req[r].pc = "dbcheck"
    /\ req' = [req EXCEPT ![r] =
                 IF ~db
                 THEN [@ EXCEPT !.pc = "done", !.resp = ErrorResp(500)]
                 ELSE [@ EXCEPT !.pc = "fetch"]]
    /\ UNCHANGED <<db, store, now, call>>

\* main.py:110-114
Fetch(r) ==
    /\ req[r].pc = "fetch"
    /\ \E http \in HttpResults :
         LET soup == scrape_google_news_page(http)
             logged == Append(req[r].log, Ev("fetch", 0, http.kind, 0))
         IN req' = [req EXCEPT ![r] =
                      IF soup.is_none
                      THEN [@ EXCEPT !.pc = "done", !.log = logged,
                                     !.resp = ErrorResp(500)]
                      ELSE [@ EXCEPT !.pc = "extract", !.log = logged,
                                     !.soup = soup]]
    /\ UNCHANGED <<db, store, now, call>>

\* main.py:118-128: the branch on the list the extractor returned.
AfterExtract(rq, extracted) ==
    LET logged == Append(rq.log, Ev("extract", 0, IF extracted = <<>> THEN "none" ELSE "some", 0))
    IN  IF extracted = <<>>
        THEN [rq EXCEPT !.pc = "done", !.log = logged,
                        !.resp = SuccessResp(0, 0, 0)]
        ELSE [rq EXCEPT !.pc = "check", !.log = logged,
                        !.articles = extracted, !.i = 1]

\* main.py:116-128
Extract(r) ==
    /\ req[r].pc = "extract"
    /\ req' = [req EXCEPT ![r] =
                 AfterExtract(@, extract_articles_from_soup(req[r].soup, GOOGLE_NEWS_URL))]
    /\ UNCHANGED <<db, store, now, call>>

\* main.py:130 and main.py:161-173: on to the next article, or the response.
Advance(rq) ==
    IF rq.i = Len(rq.articles)
    THEN [rq EXCEPT !.pc = "done",
                    !.resp = SuccessResp(Len(rq.articles), rq.added, rq.failed)]
    ELSE [rq EXCEPT !.pc = "check", !.i = rq.i + 1]

\* The branch inverted: an existing article is written, a new one skipped.
AfterCheckInverted(rq, exists) ==
    IF ~exists
    THEN Advance([rq EXCEPT !.existing = @ + 1])
    ELSE [rq EXCEPT !.pc = "save"]

\* main.py:144-153: the branch on the result of the existence check.
AfterCheck(rq, exists) ==
    IF exists
    THEN Advance([rq EXCEPT !.existing = @ + 1])
    ELSE [rq EXCEPT !.pc = "save"]

\* A failed save that ends the request with 500.
AfterSaveAbort(rq, saved) ==
    IF saved
    THEN Advance([rq EXCEPT !.added = @ + 1])
    ELSE [rq EXCEPT !.pc = "done", !.failed = @ + 1, !.resp = ErrorResp(500)]

\* A failed save counted as an added article.
AfterSaveCountsAdded(rq, saved) == Advance([rq EXCEPT !.added = @ + 1])

\* main.py:146-150: the branch on the result of save_new_article.
AfterSave(rq, saved) ==
    IF saved
    THEN Advance([rq EXCEPT !.added = @ + 1])
    ELSE Advance([rq EXCEPT !.failed = @ + 1])

\* An article without a link passed over without being counted.
AfterNoUrlUncounted(rq) == Advance(rq)

\* main.py:131-135: the article has no article_url.
AfterNoUrl(rq) == Advance([rq EXCEPT !.failed = @ + 1])

\* An exception that ends the request with 500.
AfterExceptionAbort(rq) ==
    [rq EXCEPT !.pc = "done", !.failed = @ + 1, !.resp = ErrorResp(500)]

\* main.py:155-159: an exception escaped while processing the article.
AfterException(rq) == Advance([rq EXCEPT !.failed = @ + 1])

\* Values of article_url that are no string.
NonStringUrls == {"<int>"}

\* main.py:46 and main.py:139: create_article_doc_id raises on a value
\* without .encode.
HashRaises(article_url) == article_url \in NonStringUrls

\* main.py:131-144 and main.py:151-159: article i up to the branch on the
\* existence check; res: what check_article_exists did (io: its store call).
CheckArticle(rq, io, res) ==
    LET article_url == rq.articles[rq.i].article_url
        logged(result) ==
            [rq EXCEPT !.log = Append(@, Ev("check", rq.i, result, 0))]
    IN  IF ~Truthy(article_url)
        THEN AfterNoUrl(logged("no_url"))
        ELSE IF HashRaises(article_url)
        THEN AfterException(logged("hash_raised"))
        ELSE IF res.raised
        THEN AfterException(logged("raised"))
        ELSE AfterCheck(logged(IF db /\ io = "error" THEN "error"
                               ELSE IF res.value THEN "exists" ELSE "absent"),
                        res.value)

\* main.py:131-144 and main.py:151-159: the existence check of article i.
Check(r) ==
    /\ req[r].pc = "check"
    /\ \E io \in IoOutcomes :
         LET doc_id == ArticleDocId(req[r].articles[req[r].i])
         IN req' = [req EXCEPT ![r] =
                      CheckArticle(@, io, check_article_exists(db, store, doc_id, io))]
    /\ UNCHANGED <<db, store, now, call>>

\* main.py:145-150 and main.py:155-159: article i after save_new_article
\* returned or raised; ts: the commit time of its write (0: no write).
SaveArticle(rq, result, ts) ==
    LET logged == [rq EXCEPT !.log = Append(@, Ev("save", rq.i,
                                 IF result.raised THEN "raised"
                                 ELSE IF result.value THEN "saved" ELSE "failed",
                                 ts))]
    IN  IF result.raised
        THEN AfterException(logged)
        ELSE AfterSave(logged, result.value)

\* main.py:145-150 and main.py:155-159: the write of article i.
Save(r) ==
    /\ req[r].pc = "save"
    /\ \E io \in IoOutcomes :
         LET article == req[r].articles[req[r].i]
             doc_id == ArticleDocId(article)
             out == save_new_article(db, store, now + 1, doc_id, article, io)
             wrote == out.store # store
         IN /\ wrote => now < MaxClock
            /\ store' = out.store
            /\ now' = IF wrote THEN now + 1 ELSE now
            /\ req' = [req EXCEPT ![r] =
                         SaveArticle(@, out.result, IF wrote THEN now + 1 ELSE 0)]
    /\ UNCHANGED <<db, call>>

(***************************************************************************)
(* Specification of the scrape task                                        *)
(***************************************************************************)
NoCall == [fn |-> "none"]

Init ==
    /\ db \in BOOLEAN
    /\ store = <<>>
    /\ now = 0
    /\ req = [r \in Requests |-> IdleReq]
    /\ call = NoCall

Next ==
    \E r \in Requests :
        \/ Verify(r)
        \/ DbCheck(r)
        \/ Fetch(r)
        \/ Extract(r)
        \/ Check(r)
        \/ Save(r)

Spec == Init /\ [][Next]_vars

(***************************************************************************)
(* Direct calls of the persistence helpers                                 *)
(***************************************************************************)
\* The article records handed to the helpers.
PersisterArticles ==
    { ExtractBlock(b, GOOGLE_NEWS_URL)[1] : b \in {BlockA1, BlockA2, BlockB1} }

\* The document ids handed to the helpers: hashes of links, and an id
\* that is no valid document path.
PersisterDocIds ==
    { create_article_doc_id(a.article_url) : a \in PersisterArticles }
        \cup InvalidDocIds

\* scraper.py:143-166: check_article_exists(dbc, NEWS_COLLECTION, doc_id)
CallCheck ==
    \E dbc \in BOOLEAN, doc_id \in PersisterDocIds, io \in IoOutcomes :
        /\ call' = [ fn |-> "check", dbc |-> dbc, doc_id |-> doc_id, io |-> io,
                     existed |-> doc_id \in DOMAIN store,
                     ndocs |-> Cardinality(DOMAIN store),
                     result |-> check_article_exists(dbc, store, doc_id, io) ]
        /\ UNCHANGED <<db, store, now, req>>

\* scraper.py:168-195: save_new_article(dbc, NEWS_COLLECTION, doc_id, article_data)
CallSave ==
    \E dbc \in BOOLEAN, doc_id \in PersisterDocIds,
       article_data \in PersisterArticles, io \in IoOutcomes :
        LET out == save_new_article(dbc, store, now + 1, doc_id, article_data, io)
            wrote == out.store # store
        IN /\ wrote => now < MaxClock
           /\ store' = out.store
           /\ now' = IF wrote THEN now + 1 ELSE now
           /\ call' = [ fn |-> "save", dbc |-> dbc, doc_id |-> doc_id, io |-> io,
                        existed |-> doc_id \in DOMAIN store,
                        ndocs |-> Cardinality(DOMAIN store),
                        article_data |-> article_data,
                        article_data_after |-> out.article_data,
                        result |-> out.result ]
           /\ UNCHANGED <<db, req>>

PersisterNext == CallCheck \/ CallSave

SpecPersister == Init /\ [][PersisterNext]_vars

(***************************************************************************)
(* Properties of the persistence helpers (SpecPersister)                   *)
(***************************************************************************)
\* The lookup or write of the last call could not be completed.
CallStorageFailure ==
    ~call.dbc \/ ~DocumentRefOk(call.doc_id) \/ call.io = "error"

\* C1: check_article_exists never raises; it returns true whenever the
\* client is absent or any step of the lookup errors, and returns false
\* only when the store answered that no document with the id exists.
C1_ExistsFailSafe ==
    call.fn = "check" =>
        /\ ~call.result.raised
        /\ CallStorageFailure => call.result.value
        /\ ~call.result.value => (~CallStorageFailure /\ ~call.existed)

\* C2: save_new_article never raises; it returns false on every storage
\* failure (client absent, document reference fails, write fails) and
\* returns true only when the write reached the store.
C2_SaveNeverRaises ==
    call.fn = "save" =>
        /\ ~call.result.raised
        /\ CallStorageFailure => ~call.result.value
        /\ call.result.value =>
              /\ call.doc_id \in DOMAIN store
              /\ store[call.doc_id].scraped_at = now

\* C5: save_new_article is an upsert. Whenever the write reaches the store
\* the call returns true whether or not the id was already stored, the
\* document at the id then holds the saved record with the new timestamp,
\* and a save over a stored id leaves the number of documents unchanged.
C5_SaveIsUpsert ==
    (call.fn = "save" /\ ~CallStorageFailure) =>
        /\ call.result = Return(TRUE)
        /\ call.doc_id \in DOMAIN store
        /\ DOMAIN store[call.doc_id] = (DOMAIN call.article_data) \cup {"scraped_at"}
        /\ \A f \in DOMAIN call.article_data :
              store[call.doc_id][f] = call.article_data[f]
        /\ store[call.doc_id].scraped_at = now
        /\ Cardinality(DOMAIN store)
              = call.ndocs + (IF call.existed THEN 0 ELSE 1)

\* A second save over a stored id succeeded and replaced the record.
C5_Witness ==
    /\ call.fn = "save"
    /\ call.existed
    /\ call.result = Return(TRUE)
    /\ now = 2
    /\ Cardinality(DOMAIN store) = 1
    /\ store[call.doc_id].title = "t2"

(***************************************************************************)
(* Properties of the scrape task (Spec)                                    *)
(***************************************************************************)
\* Positions in the request's log of the calls `op` made for article k.
LogIdx(rq, op, k) ==
    {n \in DOMAIN rq.log : rq.log[n].op = op /\ rq.log[n].k = k}

\* Positions in the request's log of the calls `op` that ended in `result`.
LogResults(rq, op, result) ==
    {n \in DOMAIN rq.log : rq.log[n].op = op /\ rq.log[n].result = result}

\* The articles of the request whose processing is complete.
ProcessedUpTo(rq) ==
    IF rq.pc = "done" THEN Len(rq.articles)
    ELSE IF rq.pc \in {"check", "save"} THEN rq.i - 1
    ELSE 0

\* A stored document without its timestamp.
Fields(doc) == [f \in (DOMAIN doc) \ {"scraped_at"} |-> doc[f]]

\* The documents stored for a link.
DocsOfLink(link) == {id \in DOMAIN store : store[id].article_url = link}

\* C3: every stored document is keyed by the hash of its own link, and no
\* two stored documents carry the same link, whatever runs have happened.
C3_OneDocPerLink ==
    /\ \A id \in DOMAIN store :
          id = create_article_doc_id(store[id].article_url)
    /\ \A id1 \in DOMAIN store : \A id2 \in DOMAIN store :
          store[id1].article_url = store[id2].article_url => id1 = id2

\* A finished run whose extracted list held one link twice, with that link
\* and another one stored.
C3_Witness ==
    \E r \in Requests :
        /\ req[r].pc = "done"
        /\ Len(req[r].articles) = 2
        /\ req[r].articles[1].article_url = req[r].articles[2].article_url
        /\ req[r].articles[1].title # req[r].articles[2].title
        /\ Cardinality(DocsOfLink(req[r].articles[1].article_url)) = 1
        /\ Cardinality(DOMAIN store) = 2

\* The articles the run of request r has written.
SavedArticles(r) ==
    {k \in 1..Len(req[r].articles) :
        \E n \in LogIdx(req[r], "save", k) : req[r].log[n].result = "saved"}

\* The commit time of the write of article k by request r.
SaveTs(r, k) ==
    req[r].log[CHOOSE n \in LogIdx(req[r], "save", k) : TRUE].ts

\* Requests r1 and r2 both found the same document id absent and both wrote it.
Raced(r1, k1, r2, k2) ==
    /\ r1 # r2
    /\ k1 \in SavedArticles(r1)
    /\ k2 \in SavedArticles(r2)
    /\ ArticleDocId(req[r1].articles[k1]) = ArticleDocId(req[r2].articles[k2])

\* Positions of articles in an extracted list.
Positions == UNION {DOMAIN page : page \in TaskPages}

\* C4 as stated: after a race on one link the store holds one document
\* under the link's id, and the outcome of either write order differs
\* from the other in scraped_at only (the other fields are those of both
\* requests' records).
C4_RaceDiffersInTimestampOnly ==
    \A r1 \in Requests : \A r2 \in Requests :
    \A k1 \in Positions : \A k2 \in Positions :
        Raced(r1, k1, r2, k2) =>
            LET a1 == req[r1].articles[k1]
                a2 == req[r2].articles[k2]
                id == ArticleDocId(a1)
            IN /\ id \in DOMAIN store
               /\ DocsOfLink(a1.article_url) = {id}
               /\ Fields(store[id]) = a1
               /\ Fields(store[id]) = a2

\* C4 amended: after a race on one link the store holds one document under
\* the link's id, and it is the whole record of the write that landed
\* last, stamped with that write's time; the two write orders end in
\* documents that differ in scraped_at only if the two records are equal.
C4_RaceLastWriteWins ==
    \A r1 \in Requests : \A r2 \in Requests :
    \A k1 \in Positions : \A k2 \in Positions :
        (Raced(r1, k1, r2, k2) /\ SaveTs(r1, k1) < SaveTs(r2, k2)) =>
            LET a1 == req[r1].articles[k1]
                a2 == req[r2].articles[k2]
                id == ArticleDocId(a1)
            IN /\ id \in DOMAIN store
               /\ DocsOfLink(a1.article_url) = {id}
               /\ Fields(store[id]) = a2
               /\ store[id].scraped_at = SaveTs(r2, k2)
               /\ (Fields(store[id]) = a1) <=> (a1 = a2)

\* Two requests raced on one link with records that differ in the title.
C4_Witness ==
    \E r1 \in Requests : \E r2 \in Requests :
    \E k1 \in Positions : \E k2 \in Positions :
        /\ Raced(r1, k1, r2, k2)
        /\ SaveTs(r1, k1) < SaveTs(r2, k2)
        /\ req[r1].articles[k1].title # req[r2].articles[k2].title
        /\ req[r1].pc = "done"
        /\ req[r2].pc = "done"

\* C6: every processed article was checked exactly once; it was handed to
\* save_new_article (once, after its check) exactly if the check returned
\* false; an article reported as existing is counted as existing only,
\* and added / failed count the successful / failed saves.
C6_CheckBeforeWrite ==
    \A r \in Requests :
        LET rq == req[r]
            CheckOf(k) == rq.log[CHOOSE n \in LogIdx(rq, "check", k) : TRUE]
        IN /\ \A k \in 1..ProcessedUpTo(rq) :
                /\ Cardinality(LogIdx(rq, "check", k)) = 1
                /\ Cardinality(LogIdx(rq, "save", k)) <= 1
                /\ (LogIdx(rq, "save", k) # {}) <=> (CheckOf(k).result = "absent")
                /\ \A c \in LogIdx(rq, "check", k) :
                   \A w \in LogIdx(rq, "save", k) : c < w
           /\ \A k \in Positions :
                k > ProcessedUpTo(rq) =>
                    /\ LogIdx(rq, "save", k) = {}
                    /\ LogIdx(rq, "check", k) # {} =>
                          /\ rq.pc = "save"
                          /\ rq.i = k
                          /\ Cardinality(LogIdx(rq, "check", k)) = 1
                          /\ CheckOf(k).result = "absent"
           /\ rq.pc = "save" => LogIdx(rq, "check", rq.i) # {}
           /\ rq.existing = Cardinality(LogResults(rq, "check", "exists")
                                          \cup LogResults(rq, "check", "error"))
           /\ rq.added = Cardinality(LogResults(rq, "save", "saved"))
           /\ rq.failed = Cardinality(LogResults(rq, "save", "failed"))
           /\ rq.added + rq.failed + rq.existing = ProcessedUpTo(rq)

\* A finished run that wrote one article and skipped an existing one.
C6_Witness ==
    \E r \in Requests :
        /\ req[r].pc = "done"
        /\ req[r].resp.code = 200
        /\ LogResults(req[r], "check", "exists") # {}
        /\ LogResults(req[r], "save", "saved") # {}
        /\ req[r].added = 1
        /\ req[r].existing = 1
        /\ req[r].failed = 0

\* The request passed the origin check.
Authorised(rq) == rq.pc # "idle" /\ verify_scheduler_request(rq.header)

\* Store calls of the request that failed.
StorageErrors(rq) ==
    LogResults(rq, "check", "error") \cup LogResults(rq, "save", "failed")

\* C7 as stated: an authorised scrape request that meets an unavailable
\* store (client not initialised, or a store call failing) still ends
\* with 200, never with 500.
C7_ScrapeNeverFailsOnStorage ==
    \A r \in Requests :
        ( /\ req[r].pc = "done"
          /\ Authorised(req[r])
          /\ (~db \/ StorageErrors(req[r]) # {}) )
        => req[r].resp.code = 200

\* C7 amended: with the client initialised, store calls that fail do not
\* fail the scrape request: every extracted article is still processed,
\* the response is 200 and articles_failed_or_skipped counts the failed
\* writes (a failed existence check counts the article as existing); with
\* the client not initialised the scrape request itself ends with 500.
C7_StorageFailuresCounted ==
    \A r \in Requests :
        (req[r].pc = "done" /\ Authorised(req[r])) =>
            /\ ~db => req[r].resp.code = 500
            /\ (db /\ StorageErrors(req[r]) # {}) =>
                  /\ req[r].resp.code = 200
                  /\ req[r].resp.status = "success"
                  /\ req[r].resp.articles_processed = Len(req[r].articles)
                  /\ \A k \in 1..Len(req[r].articles) :
                        LogIdx(req[r], "check", k) # {}
                  /\ req[r].resp.articles_failed_or_skipped
                        = Cardinality(LogResults(req[r], "save", "failed"))
                  /\ req[r].existing
                        >= Cardinality(LogResults(req[r], "check", "error"))

\* A finished run whose first write failed and which went on to the
\* second article, whose existence check failed.
C7_Witness ==
    \E r \in Requests :
        /\ req[r].pc = "done"
        /\ db
        /\ req[r].resp.code = 200
        /\ \E n \in LogResults(req[r], "save", "failed") : req[r].log[n].k = 1
        /\ \E n \in LogResults(req[r], "check", "error") : req[r].log[n].k = 2

\* C8: with the client not initialised, an authorised scrape request ends
\* with 500 / 'error' having made no fetch, extraction, check or write.
C8_DbNotInitialised ==
    \A r \in Requests :
        (req[r].pc = "done" /\ Authorised(req[r]) /\ ~db) =>
            /\ req[r].resp = ErrorResp(500)
            /\ req[r].log = <<>>
            /\ req[r].articles = <<>>
            /\ store = <<>>

\* An authorised request answered while the client is not initialised.
C8_Witness ==
    \E r \in Requests :
        /\ ~db
        /\ req[r].pc = "done"
        /\ req[r].header = "true"
        /\ req[r].resp.code = 500

\* C9: a scrape request whose X-CloudScheduler header is missing or not
\* exactly 'true' ends with 403 / 'error' having made no fetch,
\* extraction, check or write.
C9_Unauthorised ==
    \A r \in Requests :
        (req[r].pc # "idle" /\ req[r].header # "true") =>
            /\ req[r].pc = "done"
            /\ req[r].resp = ErrorResp(403)
            /\ req[r].log = <<>>
            /\ req[r].articles = <<>>

\* One request without the header and one with the header 'TRUE', both
\* answered.
C9_Witness ==
    \E r1 \in Requests : \E r2 \in Requests :
        /\ req[r1].pc = "done" /\ req[r1].header = None
        /\ req[r2].pc = "done" /\ req[r2].header = "TRUE"
        /\ req[r1].resp.code = 403
        /\ req[r2].resp.code = 403

\* The page fetch of the request failed.
FetchFailed(rq) ==
    \E n \in DOMAIN rq.log : rq.log[n].op = "fetch" /\ rq.log[n].result # "ok"

\* C10: a request whose page fetch failed ends with 500 / 'error' with no
\* extraction, check or write made, and the step that ends it leaves the
\* store as it was.
C10_FetchFails ==
    /\ [](\A r \in Requests :
            FetchFailed(req[r]) =>
                /\ req[r].pc = "done"
                /\ req[r].resp = ErrorResp(500)
                /\ Len(req[r].log) = 1
                /\ req[r].articles = <<>>)
    /\ [][\A r \in Requests :
            (req[r].pc = "fetch" /\ req'[r].pc = "done") => store' = store]_vars

\* A request answered 500 after its fetch failed, with a document stored.
C10_Witness ==
    \E r \in Requests :
        /\ FetchFailed(req[r])
        /\ req[r].resp.code = 500
        /\ store # <<>>

\* C11: a failed save does not abort the scrape task: the article counts
\* as failed and not as added, every later article is still checked, and
\* the request ends with 200 / 'success'.
C11_FailedSaveIsolated ==
    \A r \in Requests :
        LET rq == req[r]
            failedAt == {rq.log[n].k : n \in LogResults(rq, "save", "failed")}
            savedAt == {rq.log[n].k : n \in LogResults(rq, "save", "saved")}
        IN /\ failedAt \cap savedAt = {}
           /\ rq.failed = Cardinality(failedAt)
           /\ rq.added = Cardinality(savedAt)
           /\ (failedAt # {}) => rq.pc \in {"check", "save", "done"}
           /\ (rq.pc = "done" /\ failedAt # {}) =>
                 /\ rq.resp.code = 200
                 /\ rq.resp.status = "success"
                 /\ rq.resp.articles_failed_or_skipped = Cardinality(failedAt)
                 /\ rq.resp.articles_added = Cardinality(savedAt)
                 /\ \A k \in 1..Len(rq.articles) : LogIdx(rq, "check", k) # {}

\* A finished run whose first save failed and whose second save succeeded.
C11_Witness ==
    \E r \in Requests :
        /\ req[r].pc = "done"
        /\ \E n \in LogResults(req[r], "save", "failed") : req[r].log[n].k = 1
        /\ \E n \in LogResults(req[r], "save", "saved") : req[r].log[n].k = 2
        /\ req[r].resp.articles_added = 1
        /\ req[r].resp.articles_failed_or_skipped = 1

C20_FailSafeNeverWrites ==
    /\ [](\A r \in Requests :
            \A n \in LogResults(req[r], "check", "error") :
                /\ LogIdx(req[r], "save", req[r].log[n].k) = {}
                /\ ~(req[r].pc = "save" /\ req[r].i = req[r].log[n].k))
    /\ [][\A r \in Requests :
            (req[r].pc = "check" /\ req'[r] # req[r]) => store' = store]_vars

\* A finished run with a failed existence check for a link that was not
\* stored, and nothing stored for it afterwards.
C20_Witness ==
    \E r \in Requests :
        /\ req[r].pc = "done"
        /\ LogResults(req[r], "check", "error") # {}
        /\ store = <<>>
        /\ req[r].resp.articles_added = 0
        /\ req[r].resp.articles_failed_or_skipped = 0

(***************************************************************************)
(* Calls of the extractor (SpecExtract)                                    *)
(***************************************************************************)
\* The container blocks of the pages handed to the extractor: two good
\* ones, and blocks with the title element missing, the href empty, the
\* href unresolvable, the source text empty.
ExtractBlocks ==
    { Block("t1", "./a", "src", None),
      Block("t2", "./b", "src", "sn"),
      Block(None, "./a", "src", None),
      Block("t1", "", "src", None),
      Block("t1", "http://[", "src", None),
      Block("t2", "./a", "", None) }

\* The documents handed to the extractor: None, or a parsed page.
ExtractSoups ==
    {SoupNone} \cup
        { [is_none |-> FALSE, blocks |-> page] :
            page \in SeqsUpTo(ExtractBlocks, MaxBlocks) }

\* The selector settings of app.config: those of config.py, or one of
\* them missing (None) or empty.
SelectorConfigs ==
    {AppSelectors} \cup
        { [AppSelectors EXCEPT ![k] = v] :
            k \in {"container", "title", "link", "source", "snippet"},
            v \in {None, ""} }

InitExtract ==
    /\ db = TRUE
    /\ store = <<>>
    /\ now = 0
    /\ req = [r \in Requests |-> IdleReq]
    /\ call \in [fn : {"extract_input"}, soup : ExtractSoups, cfg : SelectorConfigs]

\* scraper.py:51-141: extract_articles_from_soup(soup, GOOGLE_NEWS_URL)
CallExtract ==
    /\ call.fn = "extract_input"
    /\ call' = [ fn |-> "extract", soup |-> call.soup, cfg |-> call.cfg,
                 result |-> extract_with_selectors(call.soup, GOOGLE_NEWS_URL,
                                                   call.cfg) ]
    /\ UNCHANGED <<db, store, now, req>>

SpecExtract == InitExtract /\ [][CallExtract]_vars

\* The extractor ran on a page with all essential selectors set.
Extracted ==
    /\ call.fn = "extract"
    /\ ~call.soup.is_none
    /\ EssentialSelectorsSet(call.cfg)
    /\ ~call.result.raised

\* The block has a title, a link and a source name.
HasAllThree(b) == b.title \notin {None, ""} /\ b.href \notin {None, ""}
                    /\ b.source \notin {None, ""}

\* Positions of the page's blocks that have all three.
CompleteBlocks == {n \in DOMAIN call.soup.blocks : HasAllThree(call.soup.blocks[n])}

\* Positions of the page's blocks that have all three and a link that
\* resolves.
GoodBlocks == {n \in CompleteBlocks : call.soup.blocks[n].href \notin UnresolvableHrefs}

\* Every extracted record has a non-empty title, link and source name.
RecordsNonEmpty ==
    \A n \in DOMAIN call.result.value :
        /\ call.result.value[n].title \notin {None, ""}
        /\ call.result.value[n].article_url \notin {None, ""}
        /\ call.result.value[n].source_name \notin {None, ""}

C17_DegradesToEmpty ==
    ( /\ call.fn = "extract"
      /\ \/ call.soup.is_none
         \/ ~EssentialSelectorsSet(call.cfg)
         \/ call.soup.blocks = <<>> )
    => call.result = Return(<<>>)

\* A page of good blocks extracted without a container selector.
C17_Witness ==
    /\ call.fn = "extract"
    /\ call.cfg.container = ""
    /\ ~call.soup.is_none
    /\ Cardinality(GoodBlocks) = 3
    /\ call.result = Return(<<>>)

\* C18: the output is the page's good blocks in document order: the r-th
\* record comes from the r-th good block, whatever blocks were skipped or
\* failed in between.
C18_DocumentOrder ==
    Extracted =>
        /\ Len(call.result.value) = Cardinality(GoodBlocks)
        /\ \A n \in GoodBlocks :
              LET r == Cardinality({m \in GoodBlocks : m <= n})
                  b == call.soup.blocks[n]
                  rec == call.result.value[r]
              IN /\ rec.title = b.title
                 /\ rec.source_name = b.source
                 /\ rec.article_url = _resolve_url(GOOGLE_NEWS_URL, b.href)
                 /\ rec.google_news_url = rec.article_url
                 /\ rec.snippet = IF call.cfg.snippet \in {None, ""}
                                   THEN None ELSE b.snippet

\* Two good blocks with different titles around a block whose link does
\* not resolve, both extracted in page order.
C18_Witness ==
    /\ Extracted
    /\ Len(call.soup.blocks) = 3
    /\ call.soup.blocks[2].href \in UnresolvableHrefs
    /\ Len(call.result.value) = 2
    /\ call.result.value[1].title = "t2"
    /\ call.result.value[2].title = "t1"

(***************************************************************************)
(* get_google_news (SpecNews, SpecPaging)                                  *)
(***************************************************************************)
\* main.py:33
MAX_ARTICLES_LIMIT == 100

\* main.py:34
DEFAULT_ARTICLES_LIMIT == 20

\* Number of documents of the small collections GET /news/google reads.
MaxNewsDocs == 3

\* The integers whose decimal literals reach the endpoint.
IntLiterals == (0 - 9)..(MAX_ARTICLES_LIMIT + 9)

\* int() strips surrounding whitespace before it reads the literal.
Strip(s) == IF s = " 2" THEN "2" ELSE s

\* An int() that reads a malformed literal as 0.
ParseIntLenient(s) ==
    IF \E i \in IntLiterals : ToString(i) = Strip(s)
    THEN Return(CHOOSE i \in IntLiterals : ToString(i) = Strip(s))
    ELSE Return(0)

\* main.py:196-198: int(s), raising ValueError on anything that is no
\* decimal integer literal.
ParseInt(s) ==
    IF \E i \in IntLiterals : ToString(i) = Strip(s)
    THEN Return(CHOOSE i \in IntLiterals : ToString(i) = Strip(s))
    ELSE Raised

\* main.py:194-195: request.args.get(name, default); v = None: no parameter.
ArgsGet(v, default) == IF v = None THEN default ELSE v

\* A limit bounded from below only.
ClampLimitNoMax(limit) == IF limit < 0 THEN 0 ELSE limit

\* main.py:203: max(0, min(limit, MAX_ARTICLES_LIMIT))
ClampLimit(limit) ==
    IF limit > MAX_ARTICLES_LIMIT THEN MAX_ARTICLES_LIMIT
    ELSE IF limit < 0 THEN 0 ELSE limit

\* main.py:204: max(0, offset)
ClampOffset(offset) == IF offset < 0 THEN 0 ELSE offset

\* main.py:211-213: the ids of the collection ordered by scraped_at
\* descending; the document at position i has i-1 newer documents.
OrderByScrapedAtDesc(st) ==
    LET stamps == {st[id].scraped_at : id \in DOMAIN st}
        newer == [t \in stamps |-> Cardinality({u \in stamps : u > t})]
    IN  [i \in 1..Cardinality(DOMAIN st) |->
            CHOOSE id \in DOMAIN st : newer[st[id].scraped_at] = i - 1]

\* main.py:218 and main.py:234: query.limit(n), the first n results.
QueryLimit(q, n) == SubSeq(q, 1, IF n < Len(q) THEN n ELSE Len(q))

\* A cursor that keeps the cursor document in the results.
StartAt(q, cursor) ==
    SubSeq(q, CHOOSE i \in DOMAIN q : q[i] = cursor, Len(q))

\* main.py:226: query.start_after(snapshot), the results that follow the
\* cursor document in the query's order.
StartAfter(q, cursor) ==
    SubSeq(q, (CHOOSE i \in DOMAIN q : q[i] = cursor) + 1, Len(q))

\* main.py:242: datetime.isoformat(), a string made from the timestamp.
isoformat(ts) == "T" \o ToString(ts)

\* main.py:238-247: doc.to_dict() with the document id added and the
\* timestamp converted to its ISO-8601 string (None without a timestamp).
ArticleJson(st, id) ==
    [k \in (DOMAIN st[id]) \cup {"id", "scraped_at"} |->
        IF k = "id" THEN id
        ELSE IF k = "scraped_at"
        THEN (IF "scraped_at" \in DOMAIN st[id]
              THEN isoformat(st[id].scraped_at) ELSE None)
        ELSE st[id][k]]

\* main.py:237-247: the loop over the final stream.
ArticlesJson(st, ids) == [i \in DOMAIN ids |-> ArticleJson(st, ids[i])]

\* main.py:190, main.py:200 and main.py:256; queries: store queries run.
NewsErrorResp(code, message, queries) ==
    [ code |-> code, status |-> "error", message |-> message,
      queries |-> queries ]

\* main.py:231 and main.py:251
NewsSuccessResp(articles, limit, offset, queries) ==
    [ code |-> 200, status |-> "success", articles |-> articles,
      limit |-> limit, offset |-> offset, queries |-> queries ]

\* A handler that answers with what it had collected when the store raised.
NewsStreamFailedPartial(articles, limit, offset, queries) ==
    NewsSuccessResp(articles, limit, offset, queries)

\* main.py:253-256: any exception of the store query.
NewsStreamFailed(articles, limit, offset, queries) ==
    NewsErrorResp(500, "Failed to retrieve articles from database.", queries)

\* Where the store raises during a request: nowhere, when the offset
\* stream is read, when the final stream is opened, or while the final
\* stream is iterated (before its last document).
NewsIo == {"ok", "offset_stream", "final_stream", "final_iter"}

\* main.py:233-251: the final query and the processing of its results.
NewsFinalQuery(st, q, limit, offset, io, queries) ==
    LET ids == QueryLimit(q, limit)
    IN  IF io = "final_stream"
        THEN NewsStreamFailed(<<>>, limit, offset, queries + 1)
        ELSE IF io = "final_iter"
        THEN NewsStreamFailed(
                 ArticlesJson(st, SubSeq(ids, 1, IF ids = <<>> THEN 0 ELSE Len(ids) - 1)),
                 limit, offset, queries + 1)
        ELSE NewsSuccessResp(ArticlesJson(st, ids), limit, offset, queries + 1)

\* main.py:208-251: the queries run with the clamped limit and offset.
NewsQuery(st, limit, offset, io) ==
    LET query == OrderByScrapedAtDesc(st)
    IN  IF offset > 0
        THEN IF io = "offset_stream"
             THEN NewsStreamFailed(<<>>, limit, offset, 1)
             ELSE LET offset_docs == QueryLimit(query, offset)
                  IN  IF offset_docs = <<>>
                      THEN NewsSuccessResp(<<>>, limit, offset, 1)
                      ELSE NewsFinalQuery(
                               st, StartAfter(query, offset_docs[Len(offset_docs)]),
                               limit, offset, io, 1)
        ELSE NewsFinalQuery(st, query, limit, offset, io, 0)

\* main.py:176-256: GET /news/google with the query parameters limit_str
\* and offset_str (None: parameter absent).
get_google_news(dbc, st, limit_str, offset_str, io) ==
    IF ~dbc
    THEN NewsErrorResp(500, "Firestore client not initialized", 0)
    ELSE LET limit == ParseInt(ArgsGet(limit_str, ToString(DEFAULT_ARTICLES_LIMIT)))
             offset == ParseInt(ArgsGet(offset_str, "0"))
         IN  IF limit.raised \/ offset.raised
             THEN NewsErrorResp(400, "Invalid limit or offset parameter. Must be integers.", 0)
             ELSE NewsQuery(st, ClampLimit(limit.value),
                            ClampOffset(offset.value), io)

\* The article saved under its n-th link.
NewsArticle(n) ==
    [ title |-> "t" \o ToString(n), article_url |-> "u" \o ToString(n),
      source_name |-> "src", snippet |-> None,
      google_news_url |-> "u" \o ToString(n) ]

\* The collection holding article n, saved at time f[n], for n in DOMAIN f.
NewsStoreOf(f) ==
    [id \in {create_article_doc_id(NewsArticle(n).article_url) : n \in DOMAIN f} |->
        LET n == CHOOSE m \in DOMAIN f :
                     create_article_doc_id(NewsArticle(m).article_url) = id
        IN  [ArticleDataToSave(NewsArticle(n)) EXCEPT !.scraped_at = f[n]]]

\* Save times of the collections read: every assignment of distinct clock
\* values to at most MaxNewsDocs articles, and one collection with more
\* documents than MAX_ARTICLES_LIMIT.
NewsStamps ==
    { f \in UNION {[D -> 1..MaxNewsDocs] : D \in SUBSET (1..MaxNewsDocs)} :
        \A m, n \in DOMAIN f : m # n => f[m] # f[n] }
    \cup { [n \in 1..(MAX_ARTICLES_LIMIT + 2) |-> n] }

\* The store clock after the saves of f.
ClockOf(f) ==
    IF DOMAIN f = {} THEN 0
    ELSE CHOOSE t \in {f[n] : n \in DOMAIN f} : \A n \in DOMAIN f : f[n] <= t

\* Values of the limit parameter.
LimitStrings == {None, "0", "1", "2", "-5", "101", "abc", "2.5"}

\* Values of the offset parameter.
OffsetStrings == {None, "1", " 2", "3", "-5", "101", "abc", ""}

InitNews ==
    /\ db \in BOOLEAN
    /\ \E f \in NewsStamps : store = NewsStoreOf(f) /\ now = ClockOf(f)
    /\ req = [r \in Requests |-> IdleReq]
    /\ call \in [ fn : {"news_input"}, limit_str : LimitStrings,
                  offset_str : OffsetStrings, io : NewsIo ]

\* main.py:176-256: one GET /news/google request.
CallNews ==
    /\ call.fn = "news_input"
    /\ call' = [ fn |-> "news", limit_str |-> call.limit_str,
                 offset_str |-> call.offset_str, io |-> call.io,
                 resp |-> get_google_news(db, store, call.limit_str,
                                          call.offset_str, call.io) ]
    /\ UNCHANGED <<db, store, now, req>>

SpecNews == InitNews /\ [][CallNews]_vars

\* Page sizes a client pages through the collection with.
PageSizes == (1..MaxNewsDocs) \cup {MAX_ARTICLES_LIMIT, MAX_ARTICLES_LIMIT + 1}

\* ceil(len / n)
NumPages(len, n) == (len + n - 1) \div n

InitPaging ==
    /\ db = TRUE
    /\ \E f \in NewsStamps : store = NewsStoreOf(f) /\ now = ClockOf(f)
    /\ req = [r \in Requests |-> IdleReq]
    /\ call \in [fn : {"paging"}, n : PageSizes, p : {1}, pages : {<<>>}]

\* main.py:176-256: the request for page p of size n,
\* GET /news/google?limit=n&offset=(p-1)*n.
FetchPage ==
    /\ call.fn = "paging"
    /\ call.p <= NumPages(Cardinality(DOMAIN store), call.n)
    /\ LET resp == get_google_news(db, store, ToString(call.n),
                                   ToString((call.p - 1) * call.n), "ok")
       IN  /\ resp.code = 200
           /\ call' = [call EXCEPT !.p = @ + 1,
                                   !.pages = Append(@, resp.articles)]
    /\ UNCHANGED <<db, store, now, req>>

SpecPaging == InitPaging /\ [][FetchPage]_vars

(***************************************************************************)
(* Claims about GET /news/google                                           *)
(***************************************************************************)
\* A GET /news/google request has been answered.
NewsServed == call.fn = "news"

\* Parameter values that are no integer literal.
MalformedParams == {"abc", "2.5", ""}

\* The request carries a limit or an offset that is not an integer.
Malformed == call.limit_str \in MalformedParams \/ call.offset_str \in MalformedParams

\* The integer a well-formed parameter value denotes.
ParamInt(v, default) ==
    CASE v = None -> default
      [] v = "0" -> 0
      [] v = "1" -> 1
      [] v \in {"2", " 2"} -> 2
      [] v = "3" -> 3
      [] v = "-5" -> 0 - 5
      [] v = "101" -> MAX_ARTICLES_LIMIT + 1

\* l: the requested limit clamped to 0..100.
WantLimit ==
    LET l == ParamInt(call.limit_str, DEFAULT_ARTICLES_LIMIT)
    IN  IF l < 0 THEN 0 ELSE IF l > MAX_ARTICLES_LIMIT THEN MAX_ARTICLES_LIMIT ELSE l

\* o: the requested offset clamped to >= 0.
WantOffset ==
    LET o == ParamInt(call.offset_str, 0) IN IF o < 0 THEN 0 ELSE o

\* The number of stored documents newer than document id.
Rank(id) ==
    Cardinality({d \in DOMAIN store : store[d].scraped_at > store[id].scraped_at})

\* The article is the stored document id with its id and ISO timestamp.
RendersDoc(article, id) ==
    /\ DOMAIN article = (DOMAIN store[id]) \cup {"id"}
    /\ article.id = id
    /\ article.scraped_at = isoformat(store[id].scraped_at)
    /\ \A k \in (DOMAIN store[id]) \ {"scraped_at"} : article[k] = store[id][k]

\* C12 as stated: a limit or offset that is not an integer is answered
\* with 400 and status 'error', and the store is not queried.
C12_MalformedIs400 ==
    (NewsServed /\ Malformed) =>
        /\ call.resp.code = 400
        /\ call.resp.status = "error"
        /\ call.resp.queries = 0

\* C12 (amended): a limit or offset that is not an integer is answered with
\* 400 when the store client is initialised and with 500 when it is not;
\* either way the status is 'error', the store is not queried and the
\* response is never a successful one.
C12_MalformedIsError ==
    (NewsServed /\ Malformed) =>
        /\ call.resp.code = (IF db THEN 400 ELSE 500)
        /\ call.resp.status = "error"
        /\ call.resp.queries = 0

\* GET /news/google?limit=-5&offset=abc on a non-empty collection: 400.
C12_Witness ==
    /\ NewsServed
    /\ db
    /\ call.limit_str = "-5"
    /\ call.offset_str = "abc"
    /\ store # <<>>
    /\ call.resp.code = 400

\* C13: with integer limit and offset and a store that answers, the
\* response is 200 and its articles are exactly the documents of rank
\* o, .., o+l-1 in descending scraped_at order (l, o the clamped limit
\* and offset), as many as the collection has from o on - none, without
\* an error, when o is at or beyond the end.
C13_ReturnsSlice ==
    (NewsServed /\ db /\ ~Malformed /\ call.io = "ok") =>
        LET len == Cardinality(DOMAIN store)
            rest == IF len > WantOffset THEN len - WantOffset ELSE 0
            articles == call.resp.articles
        IN  /\ call.resp.code = 200
            /\ call.resp.status = "success"
            /\ call.resp.limit = WantLimit
            /\ call.resp.offset = WantOffset
            /\ Len(articles) = (IF WantLimit < rest THEN WantLimit ELSE rest)
            /\ \A j \in DOMAIN articles :
                   /\ articles[j].id \in DOMAIN store
                   /\ Rank(articles[j].id) = WantOffset + j - 1
                   /\ RendersDoc(articles[j], articles[j].id)

\* Three documents, limit 2 and offset 1: the second and third newest.
C13_Witness ==
    /\ NewsServed
    /\ db
    /\ call.io = "ok"
    /\ Cardinality(DOMAIN store) = 3
    /\ call.limit_str = "2"
    /\ call.offset_str = "1"
    /\ call.resp.code = 200
    /\ Len(call.resp.articles) = 2

\* The store raises while the request is served.
StoreRaises ==
    /\ db
    /\ ~Malformed
    /\ \/ call.io = "offset_stream" /\ WantOffset > 0
       \/ call.io \in {"final_stream", "final_iter"}
          /\ (WantOffset = 0 \/ store # <<>>)

\* C15: when the store client is not initialised or the store query raises
\* at any point, the response is 500 with status 'error', never a 200.
C15_StoreFailureIs500 ==
    (NewsServed /\ (~db \/ StoreRaises)) =>
        /\ call.resp.code = 500
        /\ call.resp.status = "error"

\* The final stream raises after it has yielded a document.
C15_Witness ==
    /\ NewsServed
    /\ db
    /\ call.io = "final_iter"
    /\ Cardinality(DOMAIN store) = 3
    /\ call.limit_str = "2"
    /\ call.offset_str = None
    /\ call.resp.code = 500

RECURSIVE Flatten(_)
\* The concatenation of the pages.
Flatten(pages) ==
    IF pages = <<>> THEN <<>>
    ELSE IF Len(pages) = 1 THEN pages[1]
    ELSE LET mid == Len(pages) \div 2
         IN  Flatten(SubSeq(pages, 1, mid))
                 \o Flatten(SubSeq(pages, mid + 1, Len(pages)))

\* The client has fetched pages 1..ceil(len/n).
PagingDone ==
    /\ call.fn = "paging"
    /\ call.p > NumPages(Cardinality(DOMAIN store), call.n)

\* Every page has at most n articles and the pages, concatenated, are the
\* collection in descending scraped_at order.
PagesPartition ==
    /\ \A i \in DOMAIN call.pages : Len(call.pages[i]) <= call.n
    /\ LET all == Flatten(call.pages)
       IN  /\ Len(all) = Cardinality(DOMAIN store)
           /\ \A j \in DOMAIN all :
                  /\ all[j].id \in DOMAIN store
                  /\ Rank(all[j].id) = j - 1

\* C14 as stated: for every page size n >= 1 the pages 1..ceil(len/n)
\* have at most n articles each and concatenate to the whole sequence.
C14_PagesPartition == PagingDone => PagesPartition

\* C14 (amended): for every page size n with 1 <= n <= 100 the pages
\* 1..ceil(len/n) have at most n articles each and concatenate to the
\* whole sequence, with no gaps, no overlaps and no reordering.
C14_PagesPartitionUpToMax ==
    (PagingDone /\ call.n <= MAX_ARTICLES_LIMIT) => PagesPartition

\* Three documents fetched in two pages of size 2.
C14_Witness ==
    /\ PagingDone
    /\ call.n = 2
    /\ Cardinality(DOMAIN store) = 3
    /\ Len(call.pages) = 2
    /\ Len(call.pages[2]) = 1

(***************************************************************************)
(* The scrape task over a scraper double (SpecLoop)                        *)
(***************************************************************************)
\* The records the double hands to the processing loop: two extracted
\* records, one without article_url and one whose article_url is no string.
ArticleA == ExtractBlock(BlockA1, GOOGLE_NEWS_URL)[1]
ArticleB == ExtractBlock(BlockB1, GOOGLE_NEWS_URL)[1]
ArticleNoUrl == [ArticleA EXCEPT !.article_url = None]
ArticleNonStringUrl == [ArticleB EXCEPT !.article_url = "<int>"]

\* tests/test_api.py:141-145: the lists extract_articles_from_soup is made
\* to return.
DoubleArticleLists ==
    { <<>>, <<ArticleA>>, <<ArticleNoUrl>>, <<ArticleNoUrl, ArticleA>>,
      <<ArticleA, ArticleA>>,
      <<ArticleNonStringUrl, ArticleA, ArticleB>>,
      <<ArticleA, ArticleNoUrl, ArticleB>>,
      <<ArticleA, ArticleB, ArticleNonStringUrl>> }

\* Outcomes of a helper of the double: those of the helper itself, and an
\* unexpected exception escaping it.
DoubleOutcomes == IoOutcomes \cup {"raise"}

\* main.py:116-128 with extract_articles_from_soup replaced by the double.
ExtractDouble(r) ==
    /\ req[r].pc = "extract"
    /\ \E extracted \in DoubleArticleLists :
         req' = [req EXCEPT ![r] = AfterExtract(@, extracted)]
    /\ UNCHANGED <<db, store, now, call>>

\* main.py:131-144 and main.py:151-159 with check_article_exists able to
\* raise.
CheckDouble(r) ==
    /\ req[r].pc = "check"
    /\ \E io \in DoubleOutcomes :
         LET doc_id == ArticleDocId(req[r].articles[req[r].i])
         IN req' = [req EXCEPT ![r] =
                      CheckArticle(@, io,
                          IF io = "raise" THEN Raised
                          ELSE check_article_exists(db, store, doc_id, io))]
    /\ UNCHANGED <<db, store, now, call>>

\* main.py:145-150 and main.py:155-159 with save_new_article able to raise.
SaveDouble(r) ==
    /\ req[r].pc = "save"
    /\ \E io \in DoubleOutcomes :
         LET article == req[r].articles[req[r].i]
             doc_id == ArticleDocId(article)
             out == IF io = "raise"
                    THEN [result |-> Raised, store |-> store, article_data |-> article]
                    ELSE save_new_article(db, store, now + 1, doc_id, article, io)
             wrote == out.store # store
         IN /\ wrote => now < MaxClock
            /\ store' = out.store
            /\ now' = IF wrote THEN now + 1 ELSE now
            /\ req' = [req EXCEPT ![r] =
                         SaveArticle(@, out.result, IF wrote THEN now + 1 ELSE 0)]
    /\ UNCHANGED <<db, call>>

LoopNext ==
    \/ Verify("r1")
    \/ DbCheck("r1")
    \/ Fetch("r1")
    \/ ExtractDouble("r1")
    \/ CheckDouble("r1")
    \/ SaveDouble("r1")

SpecLoop == Init /\ [][LoopNext]_vars

\* Log positions at which article k was classified: its existence check
\* unless the article was found absent, else its save.
Classified(rq, k) ==
    {n \in DOMAIN rq.log :
        /\ rq.log[n].k = k
        /\ \/ rq.log[n].op = "check" /\ rq.log[n].result # "absent"
           \/ rq.log[n].op = "save"}

\* Log positions of the writes of the request that reached the store.
Writes(rq) == {n \in DOMAIN rq.log : rq.log[n].op = "save" /\ rq.log[n].ts > 0}

\* C21: in every run that reaches the processing loop each article dealt
\* with so far has been classified exactly once, so the three counters add
\* up to the number of articles dealt with; at the end the response has
\* articles_processed = added + existing + failed, articles_added +
\* articles_failed_or_skipped <= articles_processed, and articles_added is
\* the number of writes of the request that reached the store.
C21_CounterAccounting ==
    \A r \in Requests :
        LET rq == req[r]
        IN  (rq.articles # <<>>) =>
              /\ \A k \in 1..ProcessedUpTo(rq) : Cardinality(Classified(rq, k)) = 1
              /\ rq.added + rq.existing + rq.failed = ProcessedUpTo(rq)
              /\ rq.added = Cardinality(Writes(rq))
              /\ rq.pc = "done" =>
                    /\ rq.resp.code = 200
                    /\ rq.resp.articles_processed = Len(rq.articles)
                    /\ rq.resp.articles_processed
                          = rq.resp.articles_added + rq.existing
                              + rq.resp.articles_failed_or_skipped
                    /\ rq.resp.articles_added + rq.resp.articles_failed_or_skipped
                          <= rq.resp.articles_processed
                    /\ rq.resp.articles_added = Cardinality(Writes(rq))

\* A finished run of three articles: one added, one without a link counted
\* as failed, one found existing.
C21_Witness ==
    /\ req["r1"].pc = "done"
    /\ req["r1"].articles = <<ArticleA, ArticleNoUrl, ArticleB>>
    /\ req["r1"].resp.code = 200
    /\ req["r1"].resp.articles_added = 1
    /\ req["r1"].resp.articles_failed_or_skipped = 1
    /\ req["r1"].existing = 1

\* Log positions of the articles given up: no article_url, or an exception
\* while hashing, checking or saving.
GivenUp(rq) ==
    {n \in DOMAIN rq.log :
        \/ rq.log[n].op = "check"
           /\ rq.log[n].result \in {"no_url", "hash_raised", "raised"}
        \/ rq.log[n].op = "save" /\ rq.log[n].result = "raised"}

\* Log positions of the existence checks made after position n.
ChecksAfter(rq, n) == {m \in DOMAIN rq.log : m > n /\ rq.log[m].op = "check"}

\* C22: an article without article_url, or one whose hashing, check or
\* save raises, adds one to the failed count and nothing else: the counts
\* of the other articles are what their own outcomes make them, the loop
\* goes on to the next article in order (one existence check per later
\* article, none left out), and the request ends with 200.
C22_FailureIsolated ==
    \A r \in Requests :
        LET rq == req[r]
            failedSaves == LogResults(rq, "save", "failed")
        IN  /\ \A m, n \in GivenUp(rq) : m # n => rq.log[m].k # rq.log[n].k
            /\ rq.failed = Cardinality(GivenUp(rq)) + Cardinality(failedSaves)
            /\ rq.added = Cardinality(LogResults(rq, "save", "saved"))
            /\ \A m, n \in DOMAIN rq.log : m < n => rq.log[m].k <= rq.log[n].k
            /\ \A n \in GivenUp(rq) :
                  /\ rq.pc \in {"check", "save", "done"}
                  /\ rq.pc # "done" =>
                        rq.i = rq.log[n].k + Cardinality(ChecksAfter(rq, n))
                                   + (IF rq.pc = "check" THEN 1 ELSE 0)
                  /\ rq.pc = "done" =>
                        /\ rq.resp.code = 200
                        /\ rq.resp.status = "success"
                        /\ rq.resp.articles_failed_or_skipped = rq.failed
                        /\ \A k \in 1..Len(rq.articles) : LogIdx(rq, "check", k) # {}

\* A finished run in which the hashing of the first article, the check of
\* the second and the save of the third raised.
C22_Witness ==
    /\ req["r1"].pc = "done"
    /\ req["r1"].resp.code = 200
    /\ req["r1"].resp.articles_failed_or_skipped = 3
    /\ \E n \in LogResults(req["r1"], "check", "hash_raised") : req["r1"].log[n].k = 1
    /\ \E n \in LogResults(req["r1"], "check", "raised") : req["r1"].log[n].k = 2
    /\ \E n \in LogResults(req["r1"], "save", "raised") : req["r1"].log[n].k = 3

====
